---- MODULE Spec2Model ----
(***************************************************************************)
(* Per-conversation read-state persistence of halloy                       *)
(* (data/src/history/metadata.rs): load, save and update of the Metadata   *)
(* record of a (server, kind) key, stored as one JSON file whose name is   *)
(* the seahash of a canonical name string.                                 *)
(*                                                                         *)
(* Every call is an async fn; a caller is suspended at dir_path().await,   *)
(* fs::read(..).await and fs::write(..).await, so each action below is the *)
(* code between two suspension points and calls of different callers       *)
(* interleave at exactly these points.                                     *)
(***************************************************************************)
EXTENDS Naturals, Sequences, FiniteSets, TLC

\* ------------------------------------------------------------------ bounds
MaxTime == 2    \* timestamps are 1..MaxTime
MaxCalls == 2   \* calls of load/save/update made in one behaviour
MaxLen == 2     \* messages in a list handed to ReadMarker::latest

\* ------------------------------------------------------------- data model
\* The callers: tasks of the client. A task awaits each call it makes, so the
\* calls of one task follow one another and those of two tasks may overlap.
Procs == {"t1", "t2"}

Times == 1..MaxTime

\* Option<T>
None == <<>>
Some(x) == <<x>>
is_some(o) == o # None
unwrap(o) == o[1]
OptionTimes == {None} \cup {Some(t) : t \in Times}

\* struct Metadata { read_marker, last_triggers_unread }
Metadata(rm, ltu) == [read_marker |-> rm, last_triggers_unread |-> ltu]
MetadataDefault == Metadata(None, None)

\* Message: the fields this module reads (server_time, the Internal source
\* test of ReadMarker::latest, triggers_unread()).
Message(t, i, u) == [server_time |-> t, internal |-> i, triggers_unread |-> u]

\* server::Server and Kind, by their Display text
Servers == {"irc", "ircchannel#a"}
Kinds == {[tag |-> "Server", arg |-> ""], [tag |-> "Channel", arg |-> "#a"],
          [tag |-> "Query", arg |-> "bob"], [tag |-> "Logs", arg |-> ""]}

\* Message lists handed to save: oldest first, server_time strictly
\* increasing; save reads server_time and triggers_unread() only.
RECURSIVE MessageListsFrom(_)
MessageListsFrom(t) ==
    IF t > MaxTime THEN {<< >>}
    ELSE LET rest == MessageListsFrom(t + 1)
         IN  rest \cup {<<Message(t, FALSE, u)>> \o r : u \in BOOLEAN, r \in rest}
MessageLists == MessageListsFrom(1)
\* Those of at most one message: every result of latest_triggers_unread.
SingleLists == {ms \in MessageLists : Len(ms) <= 1}
\* The list of one message that triggers unread, and the two ends of time.
OneTrigger == {<<Message(1, FALSE, TRUE)>>}
EndTimes == {1, MaxTime}

\* Message slices handed to ReadMarker::latest and latest_triggers_unread:
\* any messages in any order, internal ones included.
Messages == {Message(t, i, u) : t \in Times, i \in BOOLEAN, u \in BOOLEAN}
RECURSIVE MessageSlicesOf(_)
MessageSlicesOf(n) ==
    IF n = 0 THEN {<< >>}
    ELSE LET shorter == MessageSlicesOf(n - 1)
         IN  shorter \cup {Append(ms, m) : ms \in shorter, m \in Messages}
MessageSlices == MessageSlicesOf(MaxLen)

\* ------------------------------------------------------- pure functions
\* The last message, internal or not.
latest_unfiltered(messages) ==
    IF messages = << >> THEN None
    ELSE Some(messages[Len(messages)].server_time)

\* ReadMarker::latest: last message whose source is not Internal
RECURSIVE latest(_)
latest(messages) ==
    IF messages = << >> THEN None
    ELSE LET m == messages[Len(messages)]
         IN  IF ~m.internal THEN Some(m.server_time)
             ELSE latest(SubSeq(messages, 1, Len(messages) - 1))

\* The search from the front: the first message with triggers_unread().
RECURSIVE latest_triggers_unread_unreversed(_)
latest_triggers_unread_unreversed(messages) ==
    IF messages = << >> THEN None
    ELSE IF messages[1].triggers_unread THEN Some(messages[1].server_time)
         ELSE latest_triggers_unread_unreversed(Tail(messages))

\* latest_triggers_unread: last message with triggers_unread()
RECURSIVE latest_triggers_unread(_)
latest_triggers_unread(messages) ==
    IF messages = << >> THEN None
    ELSE LET m == messages[Len(messages)]
         IN  IF m.triggers_unread THEN Some(m.server_time)
             ELSE latest_triggers_unread(SubSeq(messages, 1, Len(messages) - 1))

\* ---------------------------------------------- ReadMarker as text
\* A DateTime<Utc> for Display and from_str: the year, the rest of the date
\* and time down to the second (one of Times), and the nanoseconds of the
\* second.
Millis == 1000000   \* nanoseconds of a millisecond (SecondsFormat::Millis)
Years == {1970, 9999, 10000}
Nanos == {0, 1, Millis, Millis + 1, 999 * Millis, 1000 * Millis - 1}
DateTime(y, s, n) == [year |-> y, second |-> s, nano |-> n]
ReadMarkers == {DateTime(y, s, n) : y \in Years, s \in Times, n \in Nanos}

\* Text is a sequence of characters; the fields from the month to the second
\* are written as one, the number of the second.
Digit(d) == ToString(d)
IsDigit(c) == \E d \in 0..9 : Digit(d) = c
DigitValue(c) == CHOOSE d \in 0..9 : Digit(d) = c
RECURSIVE Pow10(_)
Pow10(k) == IF k = 0 THEN 1 ELSE 10 * Pow10(k - 1)
\* n written with k digits
RECURSIVE Digits(_, _)
Digits(n, k) ==
    IF k = 0 THEN << >> ELSE Append(Digits(n \div 10, k - 1), Digit(n % 10))
RECURSIVE Number(_)
Number(cs) ==
    IF cs = << >> THEN 0
    ELSE 10 * Number(SubSeq(cs, 1, Len(cs) - 1)) + DigitValue(cs[Len(cs)])

\* to_rfc3339_opts: a year of 0..9999 is written with four digits, any other
\* with its sign and at least five.
YearText(y) == IF y \in 0..9999 THEN Digits(y, 4) ELSE <<"+">> \o Digits(y, 5)

\* Display with SecondsFormat::Secs: no fraction.
to_string_secs(r) == YearText(r.year) \o <<"-", ToString(r.second), "Z">>

\* Display for ReadMarker, line 48: to_rfc3339_opts(SecondsFormat::Millis,
\* true): three digits of fraction, the nanoseconds below the millisecond
\* dropped, and "Z" for the UTC offset.
to_string(r) ==
    YearText(r.year) \o <<"-", ToString(r.second), ".">>
        \o Digits(r.nano \div Millis, 3) \o <<"Z">>

\* from_str, lines 39-43: DateTime::parse_from_rfc3339, then
\* with_timezone(&Utc). RFC 3339: a year of four digits, the date and time,
\* an optional fraction of one to nine digits, and the offset ("Z" or
\* "+00:00" here, both UTC).
ParseError == [tag |-> "ParseError", value |-> << >>]
Parsed(r) == [tag |-> "Ok", value |-> r]
Fraction(s) == IF Len(s) > 7 /\ s[7] = "." THEN SubSeq(s, 8, Len(s) - 1) ELSE << >>
from_str_ok(s) ==
    /\ Len(s) >= 7
    /\ \A i \in 1..4 : IsDigit(s[i])
    /\ s[5] = "-"
    /\ \E t \in Times : ToString(t) = s[6]
    /\ s[Len(s)] \in {"Z", "+00:00"}
    /\ Len(s) > 7 =>
          /\ s[7] = "." /\ Len(s) \in 9..17
          /\ \A i \in 8..(Len(s) - 1) : IsDigit(s[i])
from_str(s) ==
    IF from_str_ok(s)
    THEN Parsed(DateTime(Number(SubSeq(s, 1, 4)),
                         CHOOSE t \in Times : ToString(t) = s[6],
                         Number(Fraction(s)) * Pow10(9 - Len(Fraction(s)))))
    ELSE ParseError

\* Texts handed to from_str besides those Display writes: all nine digits of
\* the fraction and a numeric offset, one digit, no fraction, no offset.
Texts ==
    {to_string(r) : r \in ReadMarkers}
    \cup {YearText(r.year) \o <<"-", ToString(r.second), ".">>
            \o Digits(r.nano, 9) \o <<"+00:00">> : r \in ReadMarkers}
    \cup {YearText(r.year) \o <<"-", ToString(r.second), ".", "5", "Z">> : r \in ReadMarkers}
    \cup {to_string_secs(r) : r \in ReadMarkers}
    \cup {YearText(r.year) \o <<"-", ToString(r.second)>> : r \in ReadMarkers}

\* serde_json::to_vec(&Metadata): the JSON document as its token sequence
JsonTime(o) == IF o = None THEN "null" ELSE ToString(unwrap(o))
to_vec(metadata) ==
    <<"{", "read_marker", JsonTime(metadata.read_marker),
      "last_triggers_unread", JsonTime(metadata.last_triggers_unread), "}">>

\* serde_json::from_slice::<Metadata>: Ok iff the bytes are a whole document
IsJsonTime(tok) == tok = "null" \/ \E t \in Times : ToString(t) = tok
ParseTime(tok) == IF tok = "null" THEN None
                  ELSE Some(CHOOSE t \in Times : ToString(t) = tok)
from_slice_ok(bytes) ==
    /\ Len(bytes) = 6
    /\ bytes[1] = "{" /\ bytes[2] = "read_marker" /\ IsJsonTime(bytes[3])
    /\ bytes[4] = "last_triggers_unread" /\ IsJsonTime(bytes[5]) /\ bytes[6] = "}"
from_slice(bytes) == Metadata(ParseTime(bytes[3]), ParseTime(bytes[5]))
\* A decoder that takes what it can from a document that is cut short.
from_slice_lenient(bytes) ==
    IF from_slice_ok(bytes) THEN from_slice(bytes)
    ELSE IF Len(bytes) >= 3 /\ bytes[2] = "read_marker" /\ IsJsonTime(bytes[3])
         THEN Metadata(ParseTime(bytes[3]), None)
         ELSE MetadataDefault

\* serde_json::from_slice(&bytes).unwrap_or_default()
from_slice_or_default(bytes) ==
    IF from_slice_ok(bytes) THEN from_slice(bytes) ELSE MetadataDefault

\* path(): the canonical name of a key
name(server, kind) ==
    CASE kind.tag = "Server" -> server \o "-metadata"
      [] kind.tag = "Channel" -> server \o "channel" \o kind.arg \o "-metadata"
      [] kind.tag = "Query" -> server \o "nickname" \o kind.arg \o "-metadata"
      [] kind.tag = "Logs" -> "log-metadata"

\* seahash::hash(name.as_bytes()), in decimal: the values of the 64-bit hash
\* on the names the model's keys produce
seahash(s) ==
    CASE s = "irc-metadata" -> "2291311356732676791"
      [] s = "ircchannel#a-metadata" -> "17903289365331779500"
      [] s = "ircnicknamebob-metadata" -> "10892795493786356601"
      [] s = "log-metadata" -> "7990018069074026534"
      [] s = "ircchannel#achannel#a-metadata" -> "1568825066069023524"
      [] s = "ircchannel#anicknamebob-metadata" -> "11259814135643015895"

\* A path that leaves the hashed name out.
path_unhashed(server, kind) == "metadata.json"

\* path(): dir.join(format!("{hashed_name}.json"))
path(server, kind) == seahash(name(server, kind)) \o ".json"

Key(s, k) == [server |-> s, kind |-> k]
Keys == {Key(s, k) : s \in Servers, k \in Kinds}
Paths == {path(k.server, k.kind) : k \in Keys}

\* The keys whose canonical names differ, and hash to different values.
NamesDiffer(a, b) ==
    /\ name(a.server, a.kind) # name(b.server, b.kind)
    /\ seahash(name(a.server, a.kind)) # seahash(name(b.server, b.kind))

\* ------------------------------------------------------------------ state
VARIABLES
    env,        \* the run's setting: [keys, tasks, faults, messages, times]
    files,      \* the base directory: file name -> [exists, bytes, by]
    pc,         \* each task's position in its call
    call,       \* the call a task is in: [op, server, kind, read_marker, triggers]
    file,       \* local `path` of the function the task is in
    metadata,   \* local `metadata` of update
    bytes,      \* local `bytes` of save/update
    read,       \* how the running call's fs::read ended: "none", "ok", "err"
    calls,      \* calls made so far
    last,       \* the call that returned last, and what it did
    hist,       \* per file: the run of update calls made on it since it was empty
    solo,       \* per key called: what its calls alone, one by one, would have stored
    io,         \* per task: the fs::read and fs::write calls its call has made so far
    eval        \* a call of a pure function: [fn, type, arg, ret]

vars == <<env, files, pc, call, file, metadata, bytes, read, calls, last, hist,
          solo, io, eval>>

\* No file of that name.
NoFile == [exists |-> FALSE, bytes |-> << >>, by |-> "none", during |-> {}]

NoCall == [op |-> "none", server |-> "", kind |-> [tag |-> "Logs", arg |-> ""],
           read_marker |-> None, triggers |-> None]
Ok(v) == [tag |-> "Ok", value |-> v]
Err(e) == [tag |-> e, value |-> MetadataDefault]
NoIo == [reads |-> 0, writes |-> 0]
NoLast == [task |-> "none", call |-> NoCall,
           result |-> [tag |-> "none", value |-> MetadataDefault],
           fault |-> "none", file |-> "", before |-> NoFile,
           loaded |-> MetadataDefault, read |-> "none", wrote |-> FALSE,
           io |-> NoIo]
NoHist == [pure |-> TRUE, max |-> None]
NoSolo == [rec |-> MetadataDefault, clean |-> TRUE, shared |-> FALSE]
NoEval == [fn |-> "none", type |-> "none", arg |-> << >>, ret |-> << >>]

Running(p) == pc[p] # "idle"

\* The record a file holds for load: its decoded bytes, or the default.
Stored(f) == IF f.exists THEN from_slice_or_default(f.bytes) ELSE MetadataDefault

\* The file after task p wrote bytes b to it: the bytes, and (history) the
\* operation that wrote them and the calls of other tasks for the same file
\* that were under way, with their positions.
FileOf(p, b) ==
    [exists |-> TRUE, bytes |-> b, by |-> call[p].op,
     during |-> {<<q, call[q].op, pc[q]>> :
                   q \in {t \in Procs \ {p} :
                            /\ pc[t] # "idle"
                            /\ path(call[t].server, call[t].kind) = file[p]}}]

\* No call of load, save or update made yet, no file stored.
Idle(e) ==
    /\ env = e
    /\ files = [f \in Paths |-> NoFile]
    /\ pc = [p \in Procs |-> "idle"]
    /\ call = [p \in Procs |-> NoCall]
    /\ file = [p \in Procs |-> ""]
    /\ metadata = [p \in Procs |-> MetadataDefault]
    /\ bytes = [p \in Procs |-> << >>]
    /\ read = [p \in Procs |-> "none"]
    /\ calls = 0
    /\ last = NoLast
    /\ hist = [f \in Paths |-> NoHist]
    /\ solo = [k \in e.keys |-> NoSolo]
    /\ io = [p \in Procs |-> NoIo]

InitWith(e) == Idle(e) /\ eval = NoEval

OneKey == {Key("irc", [tag |-> "Channel", arg |-> "#a"])}

\* One conversation, one task (calls made one after another), I/O that may
\* fail.
Init == InitWith([keys |-> OneKey, tasks |-> {"t1"}, faults |-> TRUE,
                  messages |-> SingleLists, times |-> Times])

\* ---------------------------------------------------------------- helpers
MaxOpt(a, b) == IF a = None THEN b
                ELSE IF b = None THEN a
                ELSE IF unwrap(a) >= unwrap(b) THEN a ELSE b

\* hist after task p's call returned r: a run of updates goes on while a
\* single task makes the calls and each update returns Ok from a file it
\* could read.
HistAfter(p, r, rd) ==
    LET f == path(call[p].server, call[p].kind)
        h == hist[f]
        clean == /\ env.tasks = {p}
                 /\ call[p].op = "update" /\ r.tag = "Ok"
                 /\ rd = "ok" \/ ~files[f].exists
    IN  IF call[p].op = "load" THEN hist
        ELSE [hist EXCEPT ![f] =
                IF h.pure /\ clean
                THEN [pure |-> TRUE, max |-> MaxOpt(h.max, call[p].read_marker)]
                ELSE [pure |-> FALSE, max |-> None]]

KeyOf(c) == Key(c.server, c.kind)

\* The fs::read and fs::write calls of task p's call, the one of the step it
\* is taking included: fs::read at line 63, fs::write at lines 83 and 109.
IoAfter(p) ==
    [reads |-> io[p].reads + (IF pc[p] = "load_read" THEN 1 ELSE 0),
     writes |-> io[p].writes
                  + (IF pc[p] \in {"save_write", "update_write"} THEN 1 ELSE 0)]

\* What call c leaves stored when it runs alone on a key that holds rec.
Alone(rec, c) ==
    CASE c.op = "load" -> rec
      [] c.op = "save" -> Metadata(c.read_marker, c.triggers)
      [] c.op = "update" ->
            IF is_some(rec.read_marker)
               /\ unwrap(rec.read_marker) >= unwrap(c.read_marker)
            THEN rec
            ELSE Metadata(c.read_marker, rec.last_triggers_unread)

\* solo after task p's call returned r: the call is applied to its key's
\* record; the record is no longer that of calls made one by one (clean)
\* if the call failed or another call on the key is under way, and a key of
\* the same canonical name, or hash, is marked as sharing.
SoloAfter(p, r) ==
    LET k == KeyOf(call[p])
        overlapped == \E q \in Procs \ {p} : Running(q) /\ KeyOf(call[q]) = k
        clean == solo[k].clean /\ ~overlapped /\ r.tag = "Ok"
    IN  [b \in env.keys |->
            IF b = k
            THEN [rec |-> IF clean THEN Alone(solo[k].rec, call[p])
                          ELSE MetadataDefault,
                  clean |-> clean,
                  shared |-> solo[k].shared]
            ELSE IF NamesDiffer(b, k) THEN solo[b]
                 ELSE [solo[b] EXCEPT !.shared = TRUE]]

\* The call of task p returns r (fault: what failed, "none" if nothing did)
\* after a step that found the file as it is now and writes it iff `wrote`;
\* the task's locals are dropped.
Return(p, r, fault, loaded, rd, wrote) ==
    /\ pc' = [pc EXCEPT ![p] = "idle"]
    /\ call' = [call EXCEPT ![p] = NoCall]
    /\ file' = [file EXCEPT ![p] = ""]
    /\ metadata' = [metadata EXCEPT ![p] = MetadataDefault]
    /\ bytes' = [bytes EXCEPT ![p] = << >>]
    /\ read' = [read EXCEPT ![p] = "none"]
    /\ last' = [task |-> p, call |-> call[p], result |-> r, fault |-> fault,
                file |-> file[p],
                before |-> IF file[p] = "" THEN NoFile ELSE files[file[p]],
                loaded |-> loaded, read |-> rd, wrote |-> wrote, io |-> IoAfter(p)]
    /\ io' = [io EXCEPT ![p] = NoIo]
    /\ hist' = HistAfter(p, r, rd)
    /\ solo' = SoloAfter(p, r)

CanCall(p) ==
    /\ p \in env.tasks
    /\ pc[p] = "idle" /\ calls < MaxCalls

\* ---------------------------------------------------------------- actions
\* A task calls load(server, kind).
CallLoad(p) ==
    /\ CanCall(p)
    /\ \E k \in env.keys :
         call' = [call EXCEPT ![p] = [op |-> "load", server |-> k.server,
                      kind |-> k.kind, read_marker |-> None, triggers |-> None]]
    /\ pc' = [pc EXCEPT ![p] = "load_path"]
    /\ calls' = calls + 1
    /\ UNCHANGED <<env, eval, files, file, metadata, bytes, read, last, hist, solo, io>>

\* A task calls update(server, kind, read_marker); update begins with load.
CallUpdate(p) ==
    /\ CanCall(p)
    /\ \E k \in env.keys, t \in env.times :
         call' = [call EXCEPT ![p] = [op |-> "update", server |-> k.server,
                      kind |-> k.kind, read_marker |-> Some(t), triggers |-> None]]
    /\ pc' = [pc EXCEPT ![p] = "load_path"]
    /\ calls' = calls + 1
    /\ UNCHANGED <<env, eval, files, file, metadata, bytes, read, last, hist, solo, io>>

\* A save that leaves last_triggers_unread out.
SaveRecordNoTriggers(read_marker, triggers) == Metadata(read_marker, None)

\* save, lines 76-79: the record save serializes
SaveRecord(read_marker, triggers) == Metadata(read_marker, triggers)

\* A task calls save(server, kind, messages, read_marker); the call runs to
\* its first await: it takes latest_triggers_unread(messages) (line 78) and
\* serializes (lines 76-79).
CallSave(p) ==
    /\ CanCall(p)
    /\ \E k \in env.keys, rm \in {None} \cup {Some(t) : t \in env.times},
          ms \in env.messages :
         LET c == [op |-> "save", server |-> k.server, kind |-> k.kind,
                   read_marker |-> rm, triggers |-> latest_triggers_unread(ms)]
         IN  /\ call' = [call EXCEPT ![p] = c]
             /\ bytes' = [bytes EXCEPT ![p] = to_vec(SaveRecord(rm, c.triggers))]
    /\ pc' = [pc EXCEPT ![p] = "save_path"]
    /\ calls' = calls + 1
    /\ UNCHANGED <<env, eval, files, file, metadata, read, last, hist, solo, io>>

\* load, line 61: path(&server, &kind).await?
LoadPath(p) ==
    /\ pc[p] = "load_path"
    /\ \/ /\ file' = [file EXCEPT ![p] = path(call[p].server, call[p].kind)]
          /\ pc' = [pc EXCEPT ![p] = "load_read"]
          /\ UNCHANGED <<call, metadata, bytes, read, last, hist, solo, io>>
       \/ /\ env.faults
          /\ Return(p, Err("dir"), "dir", MetadataDefault, "none", FALSE)
    /\ UNCHANGED <<env, eval, files, calls>>

\* The comparison the other way round, with > for >=, and left out.
UpToDateReversed(loaded, read_marker) ==
    /\ is_some(loaded.read_marker)
    /\ unwrap(loaded.read_marker) <= unwrap(read_marker)
UpToDateStrict(loaded, read_marker) ==
    /\ is_some(loaded.read_marker)
    /\ unwrap(loaded.read_marker) > unwrap(read_marker)
UpToDateNever(loaded, read_marker) == FALSE

\* update, lines 95-98: the loaded record already has a marker at or past
\* the candidate
UpToDate(loaded, read_marker) ==
    /\ is_some(loaded.read_marker)
    /\ unwrap(loaded.read_marker) >= unwrap(read_marker)

\* An update that writes the default last_triggers_unread.
UpdateRecordNoTriggers(loaded, read_marker) == Metadata(read_marker, None)

\* update, lines 102-105: the record update serializes
UpdateRecord(loaded, read_marker) ==
    Metadata(read_marker, loaded.last_triggers_unread)

\* update, lines 95-105, on the record load returned
UpdateDecide(p, loaded, rd) ==
    IF UpToDate(loaded, call[p].read_marker)
    THEN Return(p, Ok(MetadataDefault), "none", loaded, rd, FALSE)
    ELSE \/ /\ bytes' = [bytes EXCEPT ![p] =
                   to_vec(UpdateRecord(loaded, call[p].read_marker))]
            /\ metadata' = [metadata EXCEPT ![p] = loaded]
            /\ read' = [read EXCEPT ![p] = rd]
            /\ pc' = [pc EXCEPT ![p] = "update_path"]
            /\ io' = [io EXCEPT ![p] = IoAfter(p)]
            /\ UNCHANGED <<call, file, last, hist, solo>>
         \/ /\ env.faults
            /\ Return(p, Err("serialize"), "serialize", loaded, rd, FALSE)

\* load, lines 63-67: fs::read(path).await and the decoding of its bytes,
\* then the caller's lines up to its next await
LoadRead(p) ==
    /\ pc[p] = "load_read"
    /\ \E readable \in {TRUE, ~env.faults} :
         LET got == files[file[p]].exists /\ readable
             loaded == IF got THEN from_slice_or_default(files[file[p]].bytes)
                       ELSE MetadataDefault
             rd == IF got THEN "ok" ELSE "err"
         IN  IF call[p].op = "load"
             THEN Return(p, Ok(loaded), "none", loaded, rd, FALSE)
             ELSE UpdateDecide(p, loaded, rd)
    /\ UNCHANGED <<env, eval, files, calls>>

\* A save that creates its file before it serializes into it: the path is
\* resolved first, and a failed serialization leaves the file empty.
SavePathCreateFirst(p) ==
    /\ pc[p] = "save_path"
    /\ \/ /\ file' = [file EXCEPT ![p] = path(call[p].server, call[p].kind)]
          /\ pc' = [pc EXCEPT ![p] = "save_write"]
          /\ UNCHANGED <<files, call, metadata, bytes, read, last, hist, solo, io>>
       \/ /\ env.faults
          /\ UNCHANGED files
          /\ Return(p, Err("dir"), "dir", MetadataDefault, "none", FALSE)
       \/ /\ env.faults
          /\ files' = [files EXCEPT ![path(call[p].server, call[p].kind)] =
                          [NoFile EXCEPT !.exists = TRUE, !.by = "save"]]
          /\ Return(p, Err("serialize"), "serialize", MetadataDefault, "none", FALSE)
    /\ UNCHANGED <<env, eval, calls>>

\* save, lines 79-81: the `?` on the serialization, then
\* path(server, kind).await?
SavePath(p) ==
    /\ pc[p] = "save_path"
    /\ \/ /\ file' = [file EXCEPT ![p] = path(call[p].server, call[p].kind)]
          /\ pc' = [pc EXCEPT ![p] = "save_write"]
          /\ UNCHANGED <<call, metadata, bytes, read, last, hist, solo, io>>
       \/ /\ env.faults
          /\ \E e \in {"serialize", "dir"} :
               Return(p, Err(e), e, MetadataDefault, "none", FALSE)
    /\ UNCHANGED <<env, eval, files, calls>>

\* update, line 107: path(server, kind).await?
UpdatePath(p) ==
    /\ pc[p] = "update_path"
    /\ \/ /\ pc' = [pc EXCEPT ![p] = "update_write"]
          /\ file' = [file EXCEPT ![p] = path(call[p].server, call[p].kind)]
          /\ UNCHANGED <<call, metadata, bytes, read, last, hist, solo, io>>
       \/ /\ env.faults
          /\ Return(p, Err("dir"), "dir", metadata[p], read[p], FALSE)
    /\ UNCHANGED <<env, eval, files, calls>>

\* What a failed fs::write can leave of the bytes: nothing (the file was
\* created and truncated) or a proper part of them, of which the model takes
\* the first half and all but the end.
CutShort(b) == {SubSeq(b, 1, n) : n \in {0, Len(b) \div 2, Len(b) - 1}}

\* A write whose error is dropped.
WriteFailedSwallowed == Ok(MetadataDefault)

\* The `?` on fs::write: what the call returns when the write failed.
WriteFailed == Err("io")

\* A write that update makes only if the file still has no marker at or past
\* the candidate, as if the comparison and the write were one step.
WriteIfStillOlder(p) ==
    /\ pc[p] \in {"save_write", "update_write"}
    /\ LET f == file[p] IN
       IF call[p].op = "update" /\ UpToDate(Stored(files[f]), call[p].read_marker)
       THEN /\ UNCHANGED files
            /\ Return(p, Ok(MetadataDefault), "none", metadata[p], read[p], FALSE)
       ELSE /\ files' = [files EXCEPT ![f] = FileOf(p, bytes[p])]
            /\ Return(p, Ok(MetadataDefault), "none", metadata[p], read[p], TRUE)
    /\ UNCHANGED <<env, eval, calls>>

\* A write that is tried once more when it fails the first time.
WriteRetrying(p) ==
    /\ pc[p] \in {"save_write", "update_write"}
    /\ LET f == file[p] IN
       \/ /\ files' = [files EXCEPT ![f] = FileOf(p, bytes[p])]
          /\ Return(p, Ok(MetadataDefault), "none", metadata[p], read[p], TRUE)
       \/ /\ env.faults /\ io[p].writes = 0
          /\ io' = [io EXCEPT ![p] = IoAfter(p)]
          /\ UNCHANGED <<files, pc, call, file, metadata, bytes, read, last, hist, solo>>
       \/ /\ env.faults /\ io[p].writes > 0
          /\ UNCHANGED files
          /\ Return(p, WriteFailed, "io", metadata[p], read[p], FALSE)
    /\ UNCHANGED <<env, eval, calls>>

\* fs::write(path, &bytes).await?  (save line 83, update line 109): the file
\* is replaced whole; a failed write leaves it as it was or cut short.
Write(p) ==
    /\ pc[p] \in {"save_write", "update_write"}
    /\ LET f == file[p] IN
       \/ /\ files' = [files EXCEPT ![f] = FileOf(p, bytes[p])]
          /\ Return(p, Ok(MetadataDefault), "none", metadata[p], read[p], TRUE)
       \/ /\ env.faults
          /\ UNCHANGED files
          /\ Return(p, WriteFailed, "io", metadata[p], read[p], FALSE)
       \/ /\ env.faults
          /\ \E b \in CutShort(bytes[p]) :
               files' = [files EXCEPT ![f] = FileOf(p, b)]
          /\ Return(p, WriteFailed, "io", metadata[p], read[p], FALSE)
    /\ UNCHANGED <<env, eval, calls>>

Next ==
    \E p \in Procs :
        \/ CallLoad(p)
        \/ CallUpdate(p)
        \/ CallSave(p)
        \/ LoadPath(p)
        \/ LoadRead(p)
        \/ SavePath(p)
        \/ UpdatePath(p)
        \/ Write(p)

Spec == Init /\ [][Next]_vars

\* One conversation, one task, I/O that may fail, where a call that can take
\* a step takes one in the end: the runtime polls a task that was woken, and
\* the file system answers. save is handed one message that triggers unread.
Step(p) == LoadPath(p) \/ LoadRead(p) \/ SavePath(p) \/ UpdatePath(p) \/ Write(p)
InitFair == InitWith([keys |-> OneKey, tasks |-> {"t1"}, faults |-> TRUE,
                      messages |-> OneTrigger, times |-> Times])
SpecFair == InitFair /\ [][Next]_vars /\ \A p \in Procs : WF_vars(Step(p))

\* One conversation, two tasks (overlapping calls), I/O that does not fail.
InitConcurrent == InitWith([keys |-> OneKey, tasks |-> Procs, faults |-> FALSE,
                            messages |-> SingleLists, times |-> Times])
SpecConcurrent == InitConcurrent /\ [][Next]_vars

\* Five conversations of two servers, of every kind; one task, I/O that does
\* not fail.
FiveKeys == {Key("irc", [tag |-> "Channel", arg |-> "#a"]),
             Key("ircchannel#a", [tag |-> "Server", arg |-> ""]),
             Key("irc", [tag |-> "Query", arg |-> "bob"]),
             Key("irc", [tag |-> "Logs", arg |-> ""]),
             Key("ircchannel#a", [tag |-> "Logs", arg |-> ""])}
\* The message lists of at most one message, of the first time.
ShortLists == {ms \in MessageLists : ms = << >> \/ (Len(ms) = 1 /\ ms[1].server_time = 1)}
InitKeys == InitWith([keys |-> FiveKeys, tasks |-> {"t1"}, faults |-> FALSE,
                      messages |-> ShortLists, times |-> Times])
SpecKeys == InitKeys /\ [][Next]_vars

\* Three conversations, two of them of one canonical name; two tasks
\* (overlapping calls), I/O that does not fail; save is handed one message
\* that triggers unread, and the read markers are the first and the last time.
ThreeKeys == {Key("irc", [tag |-> "Channel", arg |-> "#a"]),
              Key("ircchannel#a", [tag |-> "Server", arg |-> ""]),
              Key("irc", [tag |-> "Query", arg |-> "bob"])}
InitIndependent == InitWith([keys |-> ThreeKeys, tasks |-> Procs, faults |-> FALSE,
                             messages |-> OneTrigger, times |-> EndTimes])
SpecIndependent == InitIndependent /\ [][Next]_vars

\* ------------------------------------------------- the pure functions
\* No task, no file: a caller evaluates one of the functions on an argument.
Arg(type, a) == [fn |-> "none", type |-> type, arg |-> a, ret |-> << >>]
InitPure ==
    /\ Idle([keys |-> {}, tasks |-> {}, faults |-> FALSE, messages |-> {}, times |-> {}])
    /\ \/ \E ms \in MessageSlices : eval = Arg("&[Message]", ms)
       \/ \E r \in ReadMarkers : eval = Arg("ReadMarker", r)
       \/ \E t \in Texts : eval = Arg("&str", t)

NotEval == <<env, files, pc, call, file, metadata, bytes, read, calls, last, hist,
            solo, io>>

\* ReadMarker::latest(messages)
EvalLatest ==
    /\ eval.fn = "none" /\ eval.type = "&[Message]"
    /\ eval' = [eval EXCEPT !.fn = "latest", !.ret = latest(eval.arg)]
    /\ UNCHANGED NotEval

\* latest_triggers_unread(messages)
EvalLatestTriggersUnread ==
    /\ eval.fn = "none" /\ eval.type = "&[Message]"
    /\ eval' = [eval EXCEPT !.fn = "latest_triggers_unread",
                            !.ret = latest_triggers_unread(eval.arg)]
    /\ UNCHANGED NotEval

\* read_marker.to_string()
EvalDisplay ==
    /\ eval.fn = "none" /\ eval.type = "ReadMarker"
    /\ eval' = [eval EXCEPT !.fn = "to_string", !.ret = to_string(eval.arg)]
    /\ UNCHANGED NotEval

\* text.parse::<ReadMarker>(), of a given text or of the text that Display
\* wrote
EvalFromStr ==
    /\ \/ /\ eval.fn = "none" /\ eval.type = "&str"
          /\ eval' = [eval EXCEPT !.fn = "from_str", !.ret = from_str(eval.arg)]
       \/ /\ eval.fn = "to_string"
          /\ eval' = [eval EXCEPT !.fn = "to_string.from_str",
                                  !.ret = from_str(eval.ret)]
    /\ UNCHANGED NotEval

NextPure ==
    \/ EvalLatest
    \/ EvalLatestTriggersUnread
    \/ EvalDisplay
    \/ EvalFromStr

SpecPure == InitPure /\ [][NextPure]_vars

\* ------------------------------------------------------------- properties
\* Option<ReadMarker> order: no marker is below every marker.
Geq(a, b) == b = None \/ (a # None /\ unwrap(a) >= unwrap(b))

LastOp == last.call.op
\* The record persisted in the last call's file before and after its last step.
Before == Stored(last.before)
After == Stored(files[last.file])
\* The last call's fs::read failed only if there was no file to read.
ReadFine == last.read = "ok" \/ (last.read = "err" /\ ~last.before.exists)
LastUpdateLoaded == LastOp = "update" /\ last.file # "" /\ ReadFine

\* C1: after update calls with markers m1..mn made one after another on one
\* file, starting from no file and each returning Ok, the persisted read
\* marker is max(m1..mn).
FinalMarkerIsMax ==
    \A f \in Paths : hist[f].pure => Stored(files[f]).read_marker = hist[f].max

\* C1 witness: two updates ran, the second with the lower marker, and the
\* higher one is persisted.
FinalMarkerIsMaxWitness ==
    /\ LastOp = "update" /\ last.result.tag = "Ok" /\ last.file # ""
    /\ hist[last.file].pure /\ calls > 1
    /\ is_some(hist[last.file].max)
    /\ unwrap(last.call.read_marker) < unwrap(hist[last.file].max)
    /\ After.read_marker = hist[last.file].max

\* C2: an update that returns Ok (made after the calls before it returned,
\* on a file it could read) leaves the persisted read marker at or above
\* what it was before the update.
UpdateNeverLowers ==
    (LastUpdateLoaded /\ last.result.tag = "Ok")
        => Geq(After.read_marker, Before.read_marker)

\* C2 witness: the marker was t, an update with an older marker returned Ok
\* and the marker still is t.
UpdateNeverLowersWitness ==
    /\ LastUpdateLoaded /\ last.result.tag = "Ok"
    /\ is_some(Before.read_marker)
    /\ unwrap(last.call.read_marker) < unwrap(Before.read_marker)
    /\ After.read_marker = Before.read_marker

\* C3: an update whose candidate is at or below the persisted read marker
\* returns Ok without writing: the file is what it was.
NoWriteWhenUpToDate ==
    (/\ LastUpdateLoaded
     /\ is_some(Before.read_marker)
     /\ unwrap(last.call.read_marker) <= unwrap(Before.read_marker))
        => /\ last.result.tag = "Ok"
           /\ ~last.wrote
           /\ files[last.file] = last.before

\* C3 witness: an update with the very marker that is persisted returned.
NoWriteWhenUpToDateWitness ==
    /\ LastUpdateLoaded
    /\ Before.read_marker = last.call.read_marker
    /\ last.result.tag = "Ok" /\ files[last.file] = last.before

\* C4 as claimed: no save or update that writes replaces the persisted read
\* marker with an older one or with none.
NoCallRegresses ==
    last.wrote => Geq(After.read_marker, Before.read_marker)

\* C4 as amended: an update that writes (on a file it could read) never
\* replaces the persisted read marker with an older one or none; a save
\* that writes sets it to its read_marker argument, older or None included.
OnlySaveRegresses ==
    last.wrote =>
        IF LastOp = "update"
        THEN ReadFine => Geq(After.read_marker, Before.read_marker)
        ELSE After.read_marker = last.call.read_marker

\* C4 witness: a save replaced a persisted marker by an older one or none.
OnlySaveRegressesWitness ==
    /\ LastOp = "save" /\ last.wrote
    /\ is_some(Before.read_marker)
    /\ ~Geq(After.read_marker, Before.read_marker)

\* C5: update's read-modify-write is not atomic: an update that loaded the
\* record before another call wrote still writes its own candidate, so
\* the later write wins; and an update lowers the persisted marker only so,
\* that is when the record it loaded is not the one it overwrites.
LaterWriteWins ==
    (LastOp = "update" /\ last.wrote) =>
        /\ After = Metadata(last.call.read_marker, last.loaded.last_triggers_unread)
        /\ ~Geq(After.read_marker, Before.read_marker) => last.loaded # Before

\* C5 witness: two updates loaded the empty record; one persisted its marker
\* and returned; the other then replaced it with its own, lower, marker.
LaterWriteWinsWitness ==
    /\ LastOp = "update" /\ last.wrote
    /\ last.loaded = MetadataDefault
    /\ last.before.exists /\ last.before.by = "update"
    /\ is_some(Before.read_marker)
    /\ unwrap(After.read_marker) < unwrap(Before.read_marker)

\* C6: a save that returns Ok has replaced the file by the record
\* {read_marker, latest_triggers_unread(messages)} of its arguments,
\* whatever was stored.
SaveOverwrites ==
    (LastOp = "save" /\ last.result.tag = "Ok") =>
        /\ last.wrote
        /\ files[last.file].bytes =
              to_vec(Metadata(last.call.read_marker, last.call.triggers))
        /\ After = Metadata(last.call.read_marker, last.call.triggers)

\* C6 witness: a record with a read marker and a trigger time was stored; a
\* save with no read marker and an older or no trigger time replaced both.
SaveOverwritesWitness ==
    /\ LastOp = "save" /\ last.result.tag = "Ok"
    /\ is_some(Before.read_marker) /\ is_some(Before.last_triggers_unread)
    /\ last.call.read_marker = None
    /\ After.read_marker = None
    /\ ~Geq(After.last_triggers_unread, Before.last_triggers_unread)

\* C7: an update writes only when the record it loaded has no read marker
\* or an older one; the record it writes has the candidate as read marker
\* and the loaded last_triggers_unread; so no update changes the
\* last_triggers_unread of a stored record it could read.
UpdateKeepsTriggers ==
    /\ (LastOp = "update" /\ last.wrote) =>
          /\ ~Geq(last.loaded.read_marker, last.call.read_marker)
          /\ After = Metadata(last.call.read_marker, last.loaded.last_triggers_unread)
    /\ (LastUpdateLoaded /\ last.result.tag = "Ok") =>
          After.last_triggers_unread = Before.last_triggers_unread

\* C7 witness: an update advanced the marker of a record that has a
\* trigger time, which is still there.
UpdateKeepsTriggersWitness ==
    /\ LastUpdateLoaded /\ last.wrote
    /\ is_some(Before.last_triggers_unread)
    /\ After.read_marker = last.call.read_marker
    /\ After.read_marker # Before.read_marker
    /\ After.last_triggers_unread = Before.last_triggers_unread

\* C8: load writes nothing and fails only when the base directory does not
\* resolve; otherwise it returns the stored record, or the default record
\* when the file is missing, unreadable or not a whole JSON document.
LoadNeverFailsOnFile ==
    LastOp = "load" =>
        /\ ~last.wrote
        /\ last.result.tag \in {"Ok", "dir"}
        /\ last.result.tag = "dir" <=> last.fault = "dir"
        /\ last.result.tag = "Ok" =>
              /\ files[last.file] = last.before
              /\ last.result.value =
                    IF /\ last.before.exists /\ last.read = "ok"
                       /\ from_slice_ok(last.before.bytes)
                    THEN from_slice(last.before.bytes)
                    ELSE MetadataDefault

\* C8 witness: load of a file cut short by a failed write returned the
\* default record.
LoadNeverFailsOnFileWitness ==
    /\ LastOp = "load" /\ last.result = Ok(MetadataDefault)
    /\ last.before.exists /\ last.read = "ok"
    /\ Len(last.before.bytes) = Len(to_vec(MetadataDefault)) - 1

\* Task p takes a step of a save or update.
StepOfSaveOrUpdate(p) ==
    /\ Running(p) /\ pc'[p] # pc[p]
    /\ call[p].op \in {"save", "update"}

\* A step of task p's call leaves key b's file alone: the call is not given
\* its path, and its content stays.
LeavesAlone(p, b) ==
    /\ file'[p] # path(b.server, b.kind)
    /\ files'[path(b.server, b.kind)] = files[path(b.server, b.kind)]

\* C9 as claimed: a save or update for one (server, kind) never reads or
\* writes the file of another, distinct (server, kind).
KeyIsolation ==
    [][\A p \in Procs, b \in FiveKeys :
          (StepOfSaveOrUpdate(p) /\ b # Key(call[p].server, call[p].kind))
              => LeavesAlone(p, b)]_vars

\* C9 as amended: a save or update for one (server, kind) never reads or
\* writes the file of a (server, kind) whose canonical name is another one
\* and hashes to another value. (Every server's Logs has the name "log-metadata", and
\* "{server}channel{c}-metadata" is also the name of the server
\* "{server}channel{c}".)
NameIsolation ==
    [][\A p \in Procs, b \in FiveKeys :
          (/\ StepOfSaveOrUpdate(p)
           /\ NamesDiffer(b, Key(call[p].server, call[p].kind)))
              => LeavesAlone(p, b)]_vars

\* C9 witness: an update wrote its file while a record of a conversation
\* with another name is stored, in another file.
NameIsolationWitness ==
    /\ LastOp = "update" /\ last.wrote
    /\ \E b \in FiveKeys :
         /\ NamesDiffer(b, Key(last.call.server, last.call.kind))
         /\ files[path(b.server, b.kind)].exists
         /\ path(b.server, b.kind) # last.file

\* C10: a save or update in which directory resolution, serialization or
\* the write failed returns that error; one that returns Ok has written the
\* record it meant to, or is an update that found a marker at or past its
\* candidate.
FailuresSurface ==
    LastOp \in {"save", "update"} =>
        /\ last.fault # "none" => last.result.tag = last.fault
        /\ last.result.tag = "Ok" =>
              \/ /\ last.wrote
                 /\ files[last.file].bytes =
                       to_vec(IF LastOp = "save"
                              THEN Metadata(last.call.read_marker, last.call.triggers)
                              ELSE Metadata(last.call.read_marker,
                                            last.loaded.last_triggers_unread))
              \/ /\ LastOp = "update" /\ ~last.wrote
                 /\ Geq(last.loaded.read_marker, last.call.read_marker)
                 /\ files[last.file] = last.before

\* C10 witness: the write of a save failed, leaving the file cut short, and
\* the save returned the error.
FailuresSurfaceWitness ==
    /\ LastOp = "save" /\ last.fault = "io" /\ last.result.tag = "io"
    /\ files[last.file].exists /\ ~from_slice_ok(files[last.file].bytes)

\* The place of the last message of ms that has property P(m), 0 if none has.
LastPlace(ms, P(_)) ==
    IF \E i \in 1..Len(ms) : P(ms[i])
    THEN CHOOSE i \in 1..Len(ms) :
            P(ms[i]) /\ \A j \in (i + 1)..Len(ms) : ~P(ms[j])
    ELSE 0
NotInternal(m) == ~m.internal
TriggersUnread(m) == m.triggers_unread

\* C11: ReadMarker::latest(M) is the server_time of the last message of M
\* whose source is not internal, and None when M is empty or every message
\* of M is internal.
LatestIsLastNotInternal ==
    eval.fn = "latest" =>
        LET i == LastPlace(eval.arg, NotInternal)
        IN  eval.ret = IF i = 0 THEN None ELSE Some(eval.arg[i].server_time)

\* C11 witness: latest of a list that ends with an internal message of a
\* later time, after a message that is not internal.
LatestIsLastNotInternalWitness ==
    /\ eval.fn = "latest" /\ Len(eval.arg) = 2
    /\ ~eval.arg[1].internal /\ eval.arg[2].internal
    /\ eval.arg[2].server_time > eval.arg[1].server_time
    /\ eval.ret = Some(eval.arg[1].server_time)

\* C12: latest_triggers_unread(M) is the server_time of the last message of
\* M for which triggers_unread() is true, and None when no message of M
\* triggers unread.
LatestTriggersIsLastTriggering ==
    eval.fn = "latest_triggers_unread" =>
        LET i == LastPlace(eval.arg, TriggersUnread)
        IN  eval.ret = IF i = 0 THEN None ELSE Some(eval.arg[i].server_time)

\* C12 witness: two messages trigger unread, the second of an earlier time,
\* and the second one's time is the result.
LatestTriggersIsLastTriggeringWitness ==
    /\ eval.fn = "latest_triggers_unread" /\ Len(eval.arg) = 2
    /\ eval.arg[1].triggers_unread /\ eval.arg[2].triggers_unread
    /\ eval.arg[2].server_time < eval.arg[1].server_time
    /\ eval.ret = Some(eval.arg[2].server_time)

\* C13 as claimed: parsing the text that formatting a ReadMarker r gives
\* yields a value equal to r.
RoundTrip ==
    eval.fn = "to_string.from_str" => eval.ret = Parsed(eval.arg)

\* r with the nanoseconds below the millisecond dropped
TruncatedToMillis(r) == [r EXCEPT !.nano = r.nano - (r.nano % Millis)]

\* C13 as amended: for a ReadMarker r of a year 0..9999, parsing the text
\* that formatting r gives yields r with the nanoseconds below the
\* millisecond dropped: a value equal to r exactly when r is of whole
\* milliseconds.
RoundTripToMillis ==
    (eval.fn = "to_string.from_str" /\ eval.arg.year \in 0..9999) =>
        /\ eval.ret = Parsed(TruncatedToMillis(eval.arg))
        /\ eval.ret = Parsed(eval.arg) <=> eval.arg.nano % Millis = 0

\* C13 witness: a ReadMarker of 999 ms and some nanoseconds more came back
\* as 999 ms.
RoundTripToMillisWitness ==
    /\ eval.fn = "to_string.from_str" /\ eval.arg.year \in 0..9999
    /\ eval.arg.nano = 1000 * Millis - 1
    /\ eval.ret.tag = "Ok" /\ eval.ret.value.nano = 999 * Millis

\* No call on key k is under way.
Quiet(k) == \A p \in Procs : Running(p) => KeyOf(call[p]) # k

\* C14 as claimed: whatever calls on other keys ran in between, once the
\* calls on a key (made one after another) have returned, the key's
\* persisted record is the one these calls alone, in their order, store.
KeysIndependent ==
    \A k \in ThreeKeys :
        (Quiet(k) /\ solo[k].clean) =>
            Stored(files[path(k.server, k.kind)]) = solo[k].rec

\* C14 as amended: the same, for a key whose canonical name (and hash) no
\* other key that was called shares.
NamesIndependent ==
    \A k \in ThreeKeys :
        (Quiet(k) /\ solo[k].clean /\ ~solo[k].shared) =>
            Stored(files[path(k.server, k.kind)]) = solo[k].rec

\* C14 witness: a call on one key wrote and returned while a call on a key
\* of another name, which has a record stored, was past its read and before
\* its write; the first key holds what its calls alone store.
NamesIndependentWitness ==
    \E p, q \in Procs :
        /\ pc[p] = "idle" /\ pc[q] = "update_write"
        /\ last.wrote /\ last.call.op \in {"save", "update"}
        /\ NamesDiffer(KeyOf(last.call), KeyOf(call[q]))
        /\ solo[KeyOf(last.call)].clean /\ ~solo[KeyOf(last.call)].shared
        /\ Stored(files[last.file]) = solo[KeyOf(last.call)].rec
        /\ Stored(files[last.file]) # MetadataDefault

\* The last call found its file cut short: there, and not a whole document.
FoundCutShort == last.before.exists /\ ~from_slice_ok(last.before.bytes)

\* C15: from a file that an interrupted write left cut short, a load in
\* which nothing fails returns the default record, and an update(m) in
\* which nothing fails returns Ok and persists read_marker = Some(m) with no
\* last_triggers_unread, whatever m and whatever the bytes left.
CutShortIsNoRecord ==
    (FoundCutShort /\ last.fault = "none") =>
        /\ LastOp = "load" => last.result = Ok(MetadataDefault)
        /\ LastOp = "update" =>
              /\ last.result.tag = "Ok" /\ last.wrote
              /\ After = Metadata(last.call.read_marker, None)

\* C15 witness: the write of a record with marker 2 was cut after the
\* marker; an update with marker 1 then stored marker 1.
CutShortIsNoRecordWitness ==
    /\ LastOp = "update" /\ FoundCutShort /\ last.result.tag = "Ok"
    /\ Len(last.before.bytes) >= 3 /\ last.before.bytes[3] = "2"
    /\ last.call.read_marker = Some(1)
    /\ After = Metadata(Some(1), None)

\* The call that returned last was under way, at one of the positions, when
\* the file it found was written.
WasAt(positions) ==
    \E at \in positions : <<last.task, LastOp, at>> \in last.before.during

\* C16: save and update on one key, overlapping. An update that had loaded
\* the record before a save replaced it writes all the same: the file ends
\* with update's candidate and the last_triggers_unread update had loaded,
\* nothing of what the save stored. A save that was under way when an
\* update wrote replaces what the update stored with its own record.
SaveUpdateLoseAWrite ==
    /\ (/\ LastOp = "update" /\ last.before.by = "save"
        /\ WasAt({"update_path", "update_write"}))
          => /\ last.wrote
             /\ After = Metadata(last.call.read_marker,
                                 last.loaded.last_triggers_unread)
    /\ (/\ LastOp = "save" /\ last.before.by = "update"
        /\ WasAt({"save_path", "save_write"}))
          => /\ last.wrote
             /\ After = Metadata(last.call.read_marker, last.call.triggers)

\* C16 witness: an update had loaded the empty record; a save stored a later
\* marker and a trigger time; the update then wrote its own marker and no
\* trigger time.
SaveUpdateLoseAWriteWitness ==
    /\ LastOp = "update" /\ last.wrote /\ last.before.by = "save"
    /\ WasAt({"update_path", "update_write"})
    /\ last.loaded = MetadataDefault
    /\ is_some(Before.read_marker) /\ is_some(Before.last_triggers_unread)
    /\ unwrap(After.read_marker) < unwrap(Before.read_marker)
    /\ After.last_triggers_unread = None

WriteSteps == {"save_write", "update_write"}

\* C17: a step of a call that is not at its fs::write changes no file, and a
\* call returns a failed directory lookup or serialization from such a
\* step, not having written: so a save or update that fails before its
\* write step leaves every file as it was. (update looks the directory up in
\* load and again before it writes.)
FailedBeforeWriteKeepsFiles ==
    [][\A p \in Procs :
          /\ (Running(p) /\ pc[p] \notin WriteSteps /\ pc'[p] # pc[p])
                => files' = files
          /\ (Running(p) /\ pc'[p] = "idle" /\ last'.fault \in {"dir", "serialize"})
                => /\ pc[p] \notin WriteSteps
                   /\ files' = files
                   /\ ~last'.wrote /\ last'.result.tag = last'.fault]_vars

\* C17 witness: an update loaded a stored record with an older marker, then
\* failed to look the directory up the second time; the file is as it was.
FailedBeforeWriteKeepsFilesWitness ==
    /\ LastOp = "update" /\ last.fault = "dir" /\ last.read = "ok"
    /\ is_some(last.loaded.read_marker)
    /\ unwrap(last.loaded.read_marker) < unwrap(last.call.read_marker)
    /\ last.before.exists /\ files[last.file] = last.before

\* The fs::read and fs::write calls that an operation may make.
IoBounds(op, n) ==
    CASE op = "load" -> n.reads <= 1 /\ n.writes = 0
      [] op = "save" -> n.reads = 0 /\ n.writes <= 1
      [] op = "update" -> n.reads <= 1 /\ n.writes <= 1
      [] OTHER -> n = NoIo

\* C18: every call of load, save or update returns in the end, and by then
\* has made at most one fs::read and no fs::write (load), no fs::read and at
\* most one fs::write (save), at most one of each (update): nothing is
\* tried twice.
EachCallFinishesOnce ==
    /\ [](/\ IoBounds(LastOp, last.io)
          /\ \A p \in Procs : IoBounds(call[p].op, io[p]))
    /\ \A p \in Procs : Running(p) ~> ~Running(p)

\* C18 witness: an update read its file once, wrote once, the write failed,
\* and the update returned the error.
EachCallFinishesOnceWitness ==
    /\ LastOp = "update" /\ last.fault = "io" /\ last.result.tag = "io"
    /\ last.io = [reads |-> 1, writes |-> 1]

====
